---- MODULE Spec2Model ----
(***************************************************************************)
(* Model of the CSV sampler/logger of the dryer dashboard                  *)
(* (src/app/logger.py, class CsvLogger) and of the threads that use it:    *)
(* HTTP caller threads running start(), stop() and sample_once(), and the  *)
(* background threads running _run().  Every read or write of a shared     *)
(* attribute of the logger is one step, so that the interleavings the      *)
(* interpreter allows between two bytecodes are interleavings of the model.*)
(***************************************************************************)
EXTENDS Integers, Sequences, FiniteSets, TLC

\* ------------------------------------------------------------------ bounds
\* Thread objects that start() may create in one run.
MaxTasks == 2
\* Seconds of UTC wall-clock time that pass in one run (one file name each).
MaxClock == 2
\* Readings captured in one run (each gets the next capture timestamp).
MaxRows == 2
\* Calls of start(), stop() and sample_once() issued in one run.
MaxCalls == 3

\* ------------------------------------------------------------- identities
Tasks == 1..MaxTasks
Caller1 == MaxTasks + 1
Caller2 == MaxTasks + 2
Callers == {Caller1, Caller2}
Threads == Tasks \cup Callers
\* File names: dryer-log-<UTC second>.csv, one name per second of the clock.
Names == 1..MaxClock
\* None, for self._thread and self._current_file.
None == 0

VARIABLES
    thread,         \* self._thread: None or a Thread object (a task id)
    stopEv,         \* self._stop: the Event's flag
    lock,           \* self._lock is held
    current_file,   \* self._current_file: None or a file name
    dir,            \* names of the files that exist in log_dir
    files,          \* content of each file, a sequence of written chunks
    clock,          \* the UTC second datetime.utcnow() falls in
    nrows,          \* readings captured so far (the capture timestamps)
    pc,             \* where each thread is in its code
    path,           \* the local variable path of each thread
    row,            \* the row each thread has built (its capture timestamp)
    op,             \* the operation each caller is in, or last was in
    res,            \* how each caller's last operation ended
    ncalls,         \* calls issued so far
    sigd,           \* history: tasks that were alive when stop() set the Event
    asleep,         \* history: tasks that were inside wait() when it was set
    wasRunning,     \* history: is_running() at the moment the caller's call began
    fileAtCall,     \* history: current_file() at the moment the caller's call began
    prev,           \* history: the operation the caller completed before this one
    past,           \* history: the calls the caller has issued, oldest first
    lastRow,        \* history: the row that was appended last, 0 if none
    out,            \* what the caller's last list_logs/get_latest_row returned
    payload,        \* row derivation: the dict sensors.read_all() returned
    line,           \* row derivation: the text csv.writer wrote for the row
    parsed,         \* row derivation: the values logs_preview read back
    stage,          \* row derivation: what was done last
    AUGER_PCT,      \* the global _AUGER_PCT of app/__init__.py
    SIMULATED,      \* sensors.py: the global SIMULATED
    HW_LIBS_OK,     \* sensors.py: _HW_LIBS_OK, whether the hardware libraries loaded
    HW_INIT_DONE,   \* sensors.py: _HW_INIT_DONE
    handles,        \* sensors.py: the hardware handles that are not None
    inits,          \* history: how often _init_hardware went past its flag
    hpc,            \* where each reader of the sensors is in read_all
    hret,           \* where each reader's _init_hardware returns to
    reading             \* what each reader's read_all has collected

vars == <<thread, stopEv, lock, current_file, dir, files, clock, nrows, pc,
          path, row, op, res, ncalls, sigd, asleep, wasRunning, fileAtCall, prev, past,
          lastRow, out, payload, line, parsed, stage, AUGER_PCT,
          SIMULATED, HW_LIBS_OK, HW_INIT_DONE, handles, inits, hpc, hret, reading>>

\* What only a call's first step writes.
callHist == <<wasRunning, fileAtCall, prev, past>>

\* The variables of the row derivation.
pure == <<payload, line, parsed, stage, AUGER_PCT>>

\* The variables of the sensors module and of its readers.
hardware == <<SIMULATED, HW_LIBS_OK, HW_INIT_DONE, handles, inits, hpc, hret, reading>>

\* What the steps of start(), stop() and _run() leave alone.
hist == <<callHist, lastRow, out, pure, hardware>>

shared == <<thread, stopEv, lock, current_file, dir, files>>

\* What only stop() writes when it sets the Event.
signalled == <<sigd, asleep>>

\* ------------------------------------------------------------ file content
\* A file is a sequence of chunks <<id, k>>: chunk k of the record id; the
\* header is record 0 and is longer than one data row and shorter than two.
Header == << <<0, 1>>, <<0, 2>>, <<0, 3>> >>

RowBytes(id) == << <<id, 1>>, <<id, 2>> >>

\* write(data) at offset 0 of a file opened with 'w' (no O_APPEND): the bytes
\* that other handles appended beyond Len(data) stay.
WriteAt0(content, data) ==
    IF Len(content) > Len(data)
    THEN data \o SubSeq(content, Len(data) + 1, Len(content))
    ELSE data

IsPrefix(p, s) == Len(p) <= Len(s) /\ SubSeq(s, 1, Len(p)) = p

\* ------------------------------------------------------------------ queries
\* sorted(names, reverse=True): the greatest name first.  All names have the
\* same length, so their order as text is the order of their seconds.
RECURSIVE SortedReverse(_)
SortedReverse(S) ==
    IF S = {} THEN << >>
    ELSE LET m == CHOOSE x \in S : \A y \in S : y <= x
         IN  <<m>> \o SortedReverse(S \ {m})

\* list_logs, line 126
ListLogs == SortedReverse(dir)

\* A record ends with the line terminator: it is in the last chunk.
EndsLine(ch) == ch[2] = (IF ch[1] = 0 THEN Len(Header) ELSE 2)

\* f.readlines(), line 161: the text up to each line terminator, and what
\* follows the last one if the file does not end with a terminator.  No line
\* of a log file is blank.
RECURSIVE ReadLines(_)
ReadLines(s) ==
    IF s = << >> THEN << >>
    ELSE IF \E i \in 1..Len(s) : EndsLine(s[i])
         THEN LET i == CHOOSE j \in 1..Len(s) :
                           EndsLine(s[j]) /\ \A k \in 1..(j - 1) : ~EndsLine(s[k])
              IN  <<SubSeq(s, 1, i)>> \o ReadLines(SubSeq(s, i + 1, Len(s)))
    ELSE <<s>>

\* get_latest_row, lines 161-165: the last line, unless the first line (taken
\* for the header) is the only one.
LastDataLine(s) ==
    LET lines == ReadLines(s)
    IN  IF Len(lines) <= 1 THEN None ELSE lines[Len(lines)]

\* ------------------------------------------------------------ thread state
\* A Thread is alive from its start() until _run returns ("dead") or ends in
\* an exception that nothing catches ("crashed").
Alive(t) == pc[t] \notin {"none", "new", "dead", "crashed"}

IsRunning == thread # None /\ Alive(thread)

NextTask == CHOOSE t \in Tasks : pc[t] = "none" /\ \A u \in Tasks : u < t => pc[u] # "none"

\* sensors.py 21-54, the module once imported: nothing is initialised, and
\* SIMULATED is True from the start when the hardware libraries are missing.
Readers == {"task", "request"}

NoReading == [temps |-> "", volts |-> "", simulated |-> ""]

Imported(libs) ==
    /\ HW_LIBS_OK = libs
    /\ SIMULATED = ~libs
    /\ HW_INIT_DONE = FALSE
    /\ handles = {}
    /\ inits = 0
    /\ hpc = [r \in Readers |-> "idle"]
    /\ hret = [r \in Readers |-> "idle"]
    /\ reading = [r \in Readers |-> NoReading]

\* CsvLogger.__init__, lines 13-20, in an empty log directory.
Constructed ==
    /\ thread = None
    /\ stopEv = FALSE
    /\ lock = FALSE
    /\ current_file = None
    /\ dir = {}
    /\ files = [n \in Names |-> << >>]
    /\ clock = 1
    /\ nrows = 0
    /\ pc = [x \in Threads |-> IF x \in Tasks THEN "none" ELSE "idle"]
    /\ path = [x \in Threads |-> None]
    /\ row = [x \in Threads |-> 0]
    /\ op = [c \in Callers |-> "none"]
    /\ res = [c \in Callers |-> "none"]
    /\ ncalls = 0
    /\ sigd = {}
    /\ asleep = {}
    /\ wasRunning = [c \in Callers |-> FALSE]
    /\ fileAtCall = [c \in Callers |-> None]
    /\ prev = [c \in Callers |-> "none"]
    /\ past = [c \in Callers |-> << >>]
    /\ lastRow = 0
    /\ out = [c \in Callers |-> None]
    /\ payload = None
    /\ line = << >>
    /\ parsed = << >>
    /\ stage = "idle"
    /\ AUGER_PCT = 50

\* The logger on the machine it is made for: the hardware libraries load.
Init == Constructed /\ Imported(TRUE)

\* The sensors module on either kind of machine.
InitHw == Constructed /\ \E libs \in BOOLEAN : Imported(libs)

\* A thread moves to position v of its code.
Goto(x, v) == pc' = [pc EXCEPT ![x] = v]

\* A caller's operation ends: r is "ret" (it returned; sample_once returned a
\* file name), "fail" (sample_once returned None) or "exc" (it raised).
Finish(c, r) ==
    /\ pc' = [pc EXCEPT ![c] = "done"]
    /\ res' = [res EXCEPT ![c] = r]

\* ------------------------------------------------- CsvLogger's file helpers
\* _make_filename: the name holds the UTC time to the second.
MakeFilename(x) ==
    /\ pc[x] = "name"
    /\ path' = [path EXCEPT ![x] = clock]
    /\ Goto(x, "hdr_exists")
    /\ UNCHANGED <<shared, clock, nrows, row, op, res, ncalls, signalled, hist>>

\* _write_header_if_needed, line 27: if not path.exists()
HeaderExists(x) ==
    /\ pc[x] = "hdr_exists"
    /\ Goto(x, IF path[x] \in dir THEN "setcur" ELSE "hdr_open")
    /\ UNCHANGED <<shared, clock, nrows, path, row, op, res, ncalls, signalled, hist>>

\* line 28: path.open('w') creates the file, or truncates the one that exists.
HeaderOpen(x) ==
    /\ pc[x] = "hdr_open"
    /\ dir' = dir \cup {path[x]}
    /\ files' = [files EXCEPT ![path[x]] = << >>]
    /\ Goto(x, "hdr_write")
    /\ UNCHANGED <<thread, stopEv, lock, current_file, clock, nrows, path, row, op, res,
                   ncalls, signalled, hist>>

\* lines 29-33: the header row reaches the file when the with block closes it;
\* the handle's offset is 0.
HeaderWrite(x) ==
    /\ pc[x] = "hdr_write"
    /\ files' = [files EXCEPT ![path[x]] = WriteAt0(files[path[x]], Header)]
    /\ Goto(x, "setcur")
    /\ UNCHANGED <<thread, stopEv, lock, current_file, dir, clock, nrows, path, row, op,
                   res, ncalls, signalled, hist>>

\* self._current_file = path (line 89 in _run, line 138 in sample_once)
SetCurrent(x) ==
    /\ pc[x] = "setcur"
    /\ current_file' = path[x]
    /\ Goto(x, "capture")
    /\ UNCHANGED <<thread, stopEv, lock, dir, files, clock, nrows, path, row, op, res,
                   ncalls, signalled, hist>>

\* _sample_and_write, lines 44-82: read the sensors and build the row; the row
\* carries the time of its capture.  A read_all() that raises gives an empty
\* payload (line 47) and a voltage that does not convert gives an empty field
\* (line 64): the row is built in every case.
Capture(x) ==
    /\ pc[x] = "capture"
    /\ nrows < MaxRows
    /\ nrows' = nrows + 1
    /\ row' = [row EXCEPT ![x] = nrows + 1]
    /\ Goto(x, "acquire")
    /\ UNCHANGED <<shared, clock, path, op, res, ncalls, signalled, hist>>

\* _append_row, line 37: with self._lock
LockFree == ~lock

Acquire(x) ==
    /\ pc[x] = "acquire"
    /\ LockFree
    /\ lock' = TRUE
    /\ Goto(x, "append")
    /\ UNCHANGED <<thread, stopEv, current_file, dir, files, clock, nrows, path, row, op,
                   res, ncalls, signalled, hist>>

\* _append_row, lines 38-40: open in append mode (creating the file if it is
\* not there), write one row at the end, close, release the lock.  In a
\* caller this ends sample_once (line 144); in a task, the tick.
AppendRow(x) ==
    /\ pc[x] = "append"
    /\ dir' = dir \cup {path[x]}
    /\ files' = [files EXCEPT ![path[x]] = files[path[x]] \o RowBytes(row[x])]
    /\ lock' = FALSE
    /\ lastRow' = row[x]
    /\ IF x \in Callers
       THEN Finish(x, "ret")
       ELSE Goto(x, "wait") /\ UNCHANGED res
    /\ UNCHANGED <<thread, stopEv, current_file, clock, nrows, path, row, op, ncalls,
                   signalled, callHist, out, pure, hardware>>

\* ---------------------------------------------------------- file I/O errors
\* An OSError leaves the code where thread x is.  sample_once catches it and
\* returns None (lines 145-146).  In _run nothing catches an error of lines
\* 87-88, which ends the thread; an error inside _sample_and_write is caught
\* (lines 94-95 and 100-102) and the task goes on to wait for its next tick.
Raised(x, caught) ==
    IF x \in Callers THEN Finish(x, "fail")
    ELSE Goto(x, IF caught THEN "wait" ELSE "crashed") /\ UNCHANGED res

\* line 28: path.open('w') fails (no space, no permission, directory gone).
HeaderOpenFails(x) ==
    /\ pc[x] = "hdr_open"
    /\ Raised(x, FALSE)
    /\ UNCHANGED <<shared, clock, nrows, path, row, op, ncalls, signalled, hist>>

\* lines 29-33: the file was created or truncated, the write of the header
\* fails and the file stays as it is.
HeaderWriteFails(x) ==
    /\ pc[x] = "hdr_write"
    /\ Raised(x, FALSE)
    /\ UNCHANGED <<shared, clock, nrows, path, row, op, ncalls, signalled, hist>>

\* sample_once without its handler (lines 145-146 left out): the error of
\* the append leaves sample_once as an exception.
AppendFails_Unhandled(x) ==
    /\ pc[x] = "append"
    /\ lock' = FALSE
    /\ IF x \in Callers THEN Finish(x, "exc") ELSE Goto(x, "wait") /\ UNCHANGED res
    /\ UNCHANGED <<thread, stopEv, current_file, dir, files, clock, nrows, path, row, op,
                   ncalls, signalled, hist>>

\* _append_row, lines 38-40: open('a') or the write fails; nothing is
\* appended and the with statement of line 37 releases the lock.
AppendFails(x) ==
    /\ pc[x] = "append"
    /\ lock' = FALSE
    /\ Raised(x, TRUE)
    /\ UNCHANGED <<thread, stopEv, current_file, dir, files, clock, nrows, path, row, op,
                   ncalls, signalled, hist>>

\* ------------------------------------------------------------ _run, a task
\* line 97: while not self._stop.wait(self.interval).  Event.wait returns
\* True at once when the Event is set, and the task ends; otherwise the task
\* blocks inside wait.
Wait(t) ==
    /\ pc[t] = "wait"
    /\ Goto(t, IF stopEv THEN "dead" ELSE "sleep")
    /\ UNCHANGED <<shared, clock, nrows, path, row, op, res, ncalls, signalled, hist>>

\* The interval passes while the task is blocked: wait returns False and the
\* next tick begins.
Timeout(t) ==
    /\ pc[t] = "sleep"
    /\ Goto(t, "capture")
    /\ UNCHANGED <<shared, clock, nrows, path, row, op, res, ncalls, signalled, hist>>

\* A task that set() has woken: its wait returns True, whatever the Event
\* holds by then, and _run returns.
Woken(t) ==
    /\ pc[t] = "woken"
    /\ Goto(t, "dead")
    /\ UNCHANGED <<shared, clock, nrows, path, row, op, res, ncalls, signalled, hist>>

TaskNext(t) ==
    \/ Wait(t)
    \/ Timeout(t)
    \/ Woken(t)

\* --------------------------------------------------------------- the clock
Tick ==
    /\ clock < MaxClock
    /\ clock' = clock + 1
    /\ UNCHANGED <<shared, nrows, pc, path, row, op, res, ncalls, signalled, hist>>

\* ----------------------------------------------------------------- callers
Begin(c, o, first) ==
    /\ pc[c] \in {"idle", "done"}
    /\ ncalls < MaxCalls
    /\ ncalls' = ncalls + 1
    /\ op' = [op EXCEPT ![c] = o]
    /\ res' = [res EXCEPT ![c] = "none"]
    /\ wasRunning' = [wasRunning EXCEPT ![c] = IsRunning]
    /\ fileAtCall' = [fileAtCall EXCEPT ![c] = current_file]
    /\ prev' = [prev EXCEPT ![c] = IF res[c] = "ret" THEN op[c] ELSE "none"]
    /\ past' = [past EXCEPT ![c] = Append(past[c], <<o, IsRunning>>)]
    /\ Goto(c, first)
    /\ UNCHANGED <<shared, clock, nrows, path, row, signalled, lastRow, out, pure, hardware>>

\* Thread objects left for the start() calls that have not created theirs yet.
Spawning == {d \in Callers : pc[d] \in {"st_chk1", "st_chk2", "st_clear", "st_new"}}

CallStart(c) ==
    /\ Cardinality({t \in Tasks : pc[t] = "none"}) > Cardinality(Spawning)
    /\ Begin(c, "start", "st_chk1")

CallStop(c) == Begin(c, "stop", "sp_chk1")

CallSample(c) == Begin(c, "sample_once", "so_cur")

\* is_running, line 120, first operand: self._thread is not None
\* start, line 105: not running, go on; stop, line 112: not running, return.
StartChk1(c) ==
    /\ pc[c] = "st_chk1"
    /\ Goto(c, IF thread = None THEN "st_clear" ELSE "st_chk2")
    /\ UNCHANGED <<shared, clock, nrows, path, row, op, res, ncalls, signalled, hist>>

\* is_running, second operand: self._thread.is_alive(), a second read of
\* self._thread; None has no is_alive (AttributeError).
StartChk2(c) ==
    /\ pc[c] = "st_chk2"
    /\ IF thread = None THEN Finish(c, "exc")
       ELSE IF Alive(thread) THEN Finish(c, "ret")
       ELSE Goto(c, "st_clear") /\ UNCHANGED res
    /\ UNCHANGED <<shared, clock, nrows, path, row, op, ncalls, signalled, hist>>

\* line 107: self._stop.clear()
StartClear(c) ==
    /\ pc[c] = "st_clear"
    /\ stopEv' = FALSE
    /\ Goto(c, "st_new")
    /\ UNCHANGED <<thread, lock, current_file, dir, files, clock, nrows, path, row, op,
                   res, ncalls, signalled, hist>>

\* line 108: self._thread = threading.Thread(...), not started yet
StartNew(c) ==
    /\ pc[c] = "st_new"
    /\ thread' = NextTask
    /\ pc' = [pc EXCEPT ![c] = "st_run", ![NextTask] = "new"]
    /\ UNCHANGED <<stopEv, lock, current_file, dir, files, clock, nrows, path, row, op,
                   res, ncalls, signalled, hist>>

\* line 109: self._thread.start(), a new read of self._thread.  None has no
\* start (AttributeError); a Thread starts only once (RuntimeError).
StartRun(c) ==
    /\ pc[c] = "st_run"
    /\ IF thread = None \/ pc[thread] # "new"
       THEN Finish(c, "exc")
       ELSE /\ pc' = [pc EXCEPT ![c] = "done", ![thread] = "name"]
            /\ res' = [res EXCEPT ![c] = "ret"]
    /\ UNCHANGED <<shared, clock, nrows, path, row, op, ncalls, signalled, hist>>

\* stop() without its guard (line 112-113 left out): it goes on to signal.
StopChk1_Unguarded(c) ==
    /\ pc[c] = "sp_chk1"
    /\ Goto(c, "sp_set")
    /\ UNCHANGED <<shared, clock, nrows, path, row, op, res, ncalls, signalled, hist>>

\* stop, line 112: if not self.is_running(): return (first operand)
StopChk1(c) ==
    /\ pc[c] = "sp_chk1"
    /\ IF thread = None THEN Finish(c, "ret")
       ELSE Goto(c, "sp_chk2") /\ UNCHANGED res
    /\ UNCHANGED <<shared, clock, nrows, path, row, op, ncalls, signalled, hist>>

\* stop, line 112, second operand of is_running
StopChk2(c) ==
    /\ pc[c] = "sp_chk2"
    /\ IF thread = None THEN Finish(c, "exc")
       ELSE IF Alive(thread) THEN Goto(c, "sp_set") /\ UNCHANGED res
       ELSE Finish(c, "ret")
    /\ UNCHANGED <<shared, clock, nrows, path, row, op, ncalls, signalled, hist>>

\* The tasks blocked inside self._stop.wait.
Sleeping == {t \in Tasks : pc[t] = "sleep"}

\* A set() that raises the flag and wakes nobody: a blocked task sleeps on
\* until its interval has passed.
StopSet_NoWake(c) ==
    /\ pc[c] = "sp_set"
    /\ stopEv' = TRUE
    /\ sigd' = sigd \cup {t \in Tasks : Alive(t)}
    /\ asleep' = asleep \cup Sleeping
    /\ Goto(c, "sp_if")
    /\ UNCHANGED <<thread, lock, current_file, dir, files, clock, nrows, path, row, op,
                   res, ncalls, hist>>

\* line 114: self._stop.set(), which also wakes every task blocked in wait
StopSet(c) ==
    /\ pc[c] = "sp_set"
    /\ stopEv' = TRUE
    /\ sigd' = sigd \cup {t \in Tasks : Alive(t)}
    /\ asleep' = asleep \cup Sleeping
    /\ pc' = [x \in Threads |-> IF x = c THEN "sp_if"
                                ELSE IF x \in Sleeping THEN "woken" ELSE pc[x]]
    /\ UNCHANGED <<thread, lock, current_file, dir, files, clock, nrows, path, row, op,
                   res, ncalls, hist>>

\* line 115: if self._thread
StopIf(c) ==
    /\ pc[c] = "sp_if"
    /\ Goto(c, IF thread = None THEN "sp_none" ELSE "sp_join")
    /\ UNCHANGED <<shared, clock, nrows, path, row, op, res, ncalls, signalled, hist>>

\* line 116: self._thread.join(timeout=2), a new read of self._thread.  None
\* has no join (AttributeError); a Thread that was not started cannot be
\* joined (RuntimeError); otherwise join returns when the task has ended or
\* when the two seconds have passed, whichever comes first.
StopJoin(c) ==
    /\ pc[c] = "sp_join"
    /\ IF thread = None \/ pc[thread] = "new"
       THEN Finish(c, "exc")
       ELSE Goto(c, "sp_none") /\ UNCHANGED res
    /\ UNCHANGED <<shared, clock, nrows, path, row, op, ncalls, signalled, hist>>

\* line 117: self._thread = None, and stop returns
StopNone(c) ==
    /\ pc[c] = "sp_none"
    /\ thread' = None
    /\ Finish(c, "ret")
    /\ UNCHANGED <<stopEv, lock, current_file, dir, files, clock, nrows, path, row, op,
                   ncalls, signalled, hist>>

\* sample_once, lines 135-140: the file to write to
SampleCur(c) ==
    /\ pc[c] = "so_cur"
    /\ IF current_file = None
       THEN Goto(c, "name") /\ UNCHANGED path
       ELSE Goto(c, "capture") /\ path' = [path EXCEPT ![c] = current_file]
    /\ UNCHANGED <<shared, clock, nrows, row, op, res, ncalls, signalled, hist>>

\* -------------------------------------------------- list_logs, get_latest_row
\* A query begins; it is not one of the MaxCalls calls that change the logger.
Query(c, o, first) ==
    /\ pc[c] \in {"idle", "done"}
    /\ op' = [op EXCEPT ![c] = o]
    /\ res' = [res EXCEPT ![c] = "none"]
    /\ out' = [out EXCEPT ![c] = None]
    /\ Goto(c, first)
    /\ UNCHANGED <<shared, clock, nrows, path, row, ncalls, signalled, callHist, lastRow, pure, hardware>>

CallListLogs(c) == Query(c, "list_logs", "ll_glob")

CallLatest(c) == Query(c, "get_latest_row", "gl_list")

\* list_logs, line 126: the names in the directory, sorted.
ListLogsRet(c) ==
    /\ pc[c] = "ll_glob"
    /\ out' = [out EXCEPT ![c] = ListLogs]
    /\ Finish(c, "ret")
    /\ UNCHANGED <<shared, clock, nrows, path, row, op, ncalls, signalled, callHist, lastRow,
                   pure, hardware>>

\* get_latest_row, lines 153-157: no file, return None; else newest is the
\* first name of list_logs() (kept in the thread's path).
LatestList(c) ==
    /\ pc[c] = "gl_list"
    /\ IF ListLogs = << >>
       THEN Finish(c, "ret") /\ UNCHANGED path
       ELSE /\ path' = [path EXCEPT ![c] = ListLogs[1]]
            /\ Goto(c, "gl_read") /\ UNCHANGED res
    /\ UNCHANGED <<shared, clock, nrows, row, op, ncalls, signalled, hist>>

\* get_latest_row, lines 159-165: read the newest file.
LatestRead(c) ==
    /\ pc[c] = "gl_read"
    /\ out' = [out EXCEPT ![c] = LastDataLine(files[path[c]])]
    /\ Finish(c, "ret")
    /\ UNCHANGED <<shared, clock, nrows, path, row, op, ncalls, signalled, callHist, lastRow,
                   pure, hardware>>

QueryNext(c) ==
    \/ CallListLogs(c)
    \/ CallLatest(c)
    \/ ListLogsRet(c)
    \/ LatestList(c)
    \/ LatestRead(c)

\* ------------------------------------------------------- the row derivation
\* Python values are records: k is the type and v the value.  A float is
\* counted in millionths, and a text is a sequence of characters.
Unit == 1000000

NoneV == [k |-> "none", v |-> 0]

Float(n) == [k |-> "float", v |-> n]

Bool(b) == [k |-> "bool", v |-> b]

Str(t) == [k |-> "str", v |-> t]

List(msgs) == [k |-> "list", v |-> msgs]

PyInt(n) == [k |-> "int", v |-> n]

Digit == <<"0", "1", "2", "3", "4", "5", "6", "7", "8", "9">>

DigitSet == {Digit[i] : i \in 1..10}

DigitVal(ch) == (CHOOSE i \in 1..10 : Digit[i] = ch) - 1

RECURSIVE Digits(_)
Digits(n) == IF n < 10 THEN <<Digit[n + 1]>> ELSE Digits(n \div 10) \o <<Digit[(n % 10) + 1]>>

RECURSIVE StripZeros(_)
StripZeros(t) ==
    IF Len(t) > 1 /\ t[Len(t)] = "0" THEN StripZeros(SubSeq(t, 1, Len(t) - 1)) ELSE t

ZeroPad(t, w) == [i \in 1..(w - Len(t)) |-> "0"] \o t

\* repr(float), which csv.writer applies to a float: the shortest text that
\* reads back as the same float; positional from 0.0001 on, with an exponent
\* below.
FloatRepr(n) ==
    LET a == IF n < 0 THEN 0 - n ELSE n
        sign == IF n < 0 THEN <<"-">> ELSE << >>
        m == StripZeros(Digits(a))
    IN  IF a = 0 \/ a >= 100
        THEN sign \o Digits(a \div Unit) \o <<".">>
                  \o StripZeros(ZeroPad(Digits(a % Unit), 6))
        ELSE sign \o <<m[1]>> \o (IF Len(m) > 1 THEN <<".">> \o Tail(m) ELSE << >>)
                  \o <<"e", "-", "0", Digit[(7 - Len(Digits(a))) + 1]>>

RECURSIVE Join(_, _)
Join(ts, sep) ==
    IF ts = << >> THEN << >>
    ELSE IF Len(ts) = 1 THEN ts[1]
    ELSE ts[1] \o sep \o Join(Tail(ts), sep)

\* str(errors) of a list of messages (none of them holds a quote).
ListRepr(msgs) ==
    <<"[">> \o Join([i \in 1..Len(msgs) |-> <<"'">> \o msgs[i] \o <<"'">>], <<",", " ">>)
            \o <<"]">>

\* What csv.writer writes for a value: nothing for None, str() for the rest.
PyStr(x) ==
    CASE x.k = "none" -> << >>
      [] x.k = "float" -> FloatRepr(x.v)
      [] x.k = "int" -> Digits(x.v)
      [] x.k = "bool" -> IF x.v THEN <<"T", "r", "u", "e">> ELSE <<"F", "a", "l", "s", "e">>
      [] x.k = "list" -> ListRepr(x.v)
      [] OTHER -> x.v

\* (v / 3.3) * 100 in millionths, rounded down: v * 1000 / 33, computed in
\* two parts to stay within 32 bits.
Percent(n) == (n \div 33) * 1000 + ((n % 33) * 1000) \div 33

\* The percentage as computed, with neither limit applied.
Clamp_Off(pct) == pct

\* logger.py 60-61, __init__.py 109-112: below 0 gives 0, above 100 gives 100
Clamp(pct) == IF pct < 0 THEN 0 ELSE IF pct > 100 * Unit THEN 100 * Unit ELSE pct

\* v_to_pct with None taken for 0.0 volt (the handler of lines 63-64 left
\* out and the conversion made total).
v_to_pct_NullAsZero(v) ==
    Float(Clamp(Percent(IF v.k = "float" THEN v.v ELSE 0)))

\* v_to_pct, logger.py 57-64 and __init__.py 106-115: float(None) raises and
\* the handler returns None; a voltage gives (v / 3.3) * 100 clamped to
\* 0..100 (here rounded down to a millionth).
v_to_pct(v) ==
    IF v.k # "float" THEN NoneV ELSE Float(Clamp(Percent(v.v)))

\* logger.py 66-70: '' when there is no moisture, else max(0, (1 - m/100) * 100)
bushels(p) ==
    LET moisture_in == v_to_pct(p.inlet_v)
    IN  IF moisture_in.k = "none" THEN Str(<< >>)
        ELSE Float(IF 100 * Unit - moisture_in.v < 0 THEN 0 ELSE 100 * Unit - moisture_in.v)

\* data_for_ui, __init__.py 117-125: None when there is no moisture.
ui_bushels(p) ==
    LET moisture_in == v_to_pct(p.inlet_v)
    IN  IF moisture_in.k = "none" THEN NoneV
        ELSE Float(IF 100 * Unit - moisture_in.v < 0 THEN 0 ELSE 100 * Unit - moisture_in.v)

\* The names that the module app/logger.py binds (its imports, lines 1-9,
\* its class and its function): what globals() is inside _sample_and_write.
LoggerGlobals ==
    {"csv", "os", "threading", "time", "datetime", "Path", "Optional", "sensors",
     "CsvLogger", "create_logger"}

\* line 55: globals().get('_AUGER_PCT'), or '' when that is None.  The name
\* is a global of app/__init__.py, which globals() of the logger's module
\* does not hold.
auger == IF "_AUGER_PCT" \in LoggerGlobals THEN PyInt(AUGER_PCT) ELSE Str(<< >>)

\* A row that holds the text of None where a value is missing.
OrEmpty_NoneText(x) == IF x.k = "none" THEN Str(<<"N", "o", "n", "e">>) ELSE x

\* lines 74-77: '' if x is None else x
OrEmpty(x) == IF x.k = "none" THEN Str(<< >>) ELSE x

\* The row of lines 72-82, for the payload p and the timestamp text ts.
RowOf(p, ts) ==
    << Str(ts),
       OrEmpty(p.inlet_c),
       OrEmpty(p.outlet_c),
       OrEmpty(p.inlet_v),
       OrEmpty(p.outlet_v),
       Bool(p.simulated.k = "bool" /\ p.simulated.v),
       IF p.errors.k = "none" THEN Str(<< >>) ELSE Str(ListRepr(p.errors.v)),
       auger,
       bushels(p) >>

\* csv.writer: a field that holds the delimiter, a quote or a line break is
\* put in quotes with its quotes doubled; the fields are joined by commas
\* and the line ends with \r\n.
RECURSIVE DoubleQuotes(_)
DoubleQuotes(t) ==
    IF t = << >> THEN << >>
    ELSE (IF t[1] = "\"" THEN <<"\"", "\"">> ELSE <<t[1]>>) \o DoubleQuotes(Tail(t))

CsvField(t) ==
    IF \E i \in 1..Len(t) : t[i] \in {",", "\"", "\r", "\n"}
    THEN <<"\"">> \o DoubleQuotes(t) \o <<"\"">>
    ELSE t

CsvLine(ts) == Join([i \in 1..Len(ts) |-> CsvField(ts[i])], <<",">>) \o <<"\r", "\n">>

\* csv.reader on one line: the fields, without their quotes.  A field that
\* begins with a quote ends at the first quote that closes it (an odd number
\* of quotes since the opening one, and no quote after it); any other field
\* ends at the next comma or line break.
RECURSIVE Undouble(_)
Undouble(t) ==
    IF t = << >> THEN << >>
    ELSE IF Len(t) >= 2 /\ t[1] = "\"" /\ t[2] = "\""
         THEN <<"\"">> \o Undouble(SubSeq(t, 3, Len(t)))
    ELSE <<t[1]>> \o Undouble(Tail(t))

Closes(t, i, j) ==
    /\ t[j] = "\""
    /\ Cardinality({k \in (i + 1)..j : t[k] = "\""}) % 2 = 1
    /\ (j = Len(t) \/ t[j + 1] # "\"")

FieldEnd(t, i) ==
    IF t[i] = "\""
    THEN IF \E j \in (i + 1)..Len(t) : Closes(t, i, j)
         THEN 1 + (CHOOSE j \in (i + 1)..Len(t) :
                       Closes(t, i, j) /\ \A k \in (i + 1)..(j - 1) : ~Closes(t, i, k))
         ELSE Len(t) + 1
    ELSE IF \E j \in i..Len(t) : t[j] \in {",", "\r", "\n"}
         THEN CHOOSE j \in i..Len(t) :
                  t[j] \in {",", "\r", "\n"} /\ \A k \in i..(j - 1) : t[k] \notin {",", "\r", "\n"}
    ELSE Len(t) + 1

RECURSIVE CsvRead(_, _, _)
CsvRead(t, i, acc) ==
    IF i > Len(t) THEN Append(acc, << >>)
    ELSE LET e == FieldEnd(t, i)
             field == IF t[i] = "\"" THEN Undouble(SubSeq(t, i + 1, e - 2))
                      ELSE SubSeq(t, i, e - 1)
         IN  IF e <= Len(t) /\ t[e] = ","
             THEN CsvRead(t, e + 1, Append(acc, field))
             ELSE Append(acc, field)

CsvFields(t) == CsvRead(t, 1, << >>)

\* datetime.utcnow().isoformat() + 'Z' (line 73): with the microseconds, or
\* without them when they are 0.
TimestampTexts ==
    { <<"2", "0", "2", "6", "-", "1", "1", "-", "0", "1", "T", "1", "2", ":", "0", "0",
        ":", "0", "1", ".", "0", "0", "1", "4", "3", "9", "Z">>,
      <<"2", "0", "2", "6", "-", "1", "1", "-", "0", "1", "T", "1", "2", ":", "0", "0",
        ":", "0", "1", "Z">> }

FirstIndex(t, ch) ==
    IF \E i \in 1..Len(t) : t[i] = ch
    THEN CHOOSE i \in 1..Len(t) : t[i] = ch /\ \A j \in 1..(i - 1) : t[j] # ch
    ELSE 0

AllDigits(t) == t # << >> /\ \A i \in 1..Len(t) : t[i] \in DigitSet

RECURSIVE IntOf(_)
IntOf(t) == IF t = << >> THEN 0 ELSE IntOf(SubSeq(t, 1, Len(t) - 1)) * 10 + DigitVal(t[Len(t)])

Unsigned(t) == IF t # << >> /\ t[1] \in {"-", "+"} THEN Tail(t) ELSE t

Signed(t, n) == IF t # << >> /\ t[1] = "-" THEN 0 - n ELSE n

\* int(value): an optional sign and digits.
ParseInt(t) ==
    IF AllDigits(Unsigned(t))
    THEN [ok |-> TRUE, v |-> Signed(t, IntOf(Unsigned(t)) * Unit)]
    ELSE [ok |-> FALSE, v |-> 0]

\* float(value) for a text with a point: sign, digits, point, digits and an
\* optional exponent; the value in millionths, rounded down.
ParseFloat(t) ==
    LET body == Unsigned(t)
        e == FirstIndex(body, "e")
        mant == IF e = 0 THEN body ELSE SubSeq(body, 1, e - 1)
        expo == IF e = 0 THEN << >> ELSE SubSeq(body, e + 1, Len(body))
        dot == FirstIndex(mant, ".")
        ip == SubSeq(mant, 1, dot - 1)
        fp == SubSeq(mant, dot + 1, Len(mant))
        fine == fp \o [i \in 1..6 |-> "0"]
        micro == IntOf(ip) * Unit + IntOf(SubSeq(fine, 1, 6))
        x == IntOf(Unsigned(expo))
    IN  IF dot > 0 /\ AllDigits(ip) /\ AllDigits(fp) /\ (e = 0 \/ AllDigits(Unsigned(expo)))
        THEN [ok |-> TRUE,
              v |-> Signed(t, IF e = 0 THEN micro
                              ELSE IF expo[1] = "-" THEN micro \div (10 ^ x)
                              ELSE micro * (10 ^ x))]
        ELSE [ok |-> FALSE, v |-> 0]

\* try_parse without its first test (line 304-305 left out): the empty field
\* goes on to int(), which raises, and comes back as the text ''.
try_parse_NoEmpty(value) ==
    LET num == IF FirstIndex(value, ".") > 0 THEN ParseFloat(value) ELSE ParseInt(value)
    IN  IF num.ok
        THEN [k |-> IF FirstIndex(value, ".") > 0 THEN "float" ELSE "int", v |-> num.v]
        ELSE IF value \in TimestampTexts THEN [k |-> "time", v |-> value]
        ELSE Str(value)

\* try_parse, __init__.py 303-328: '' is None; a text with a point is read
\* by float() and any other by int(); what neither reads is a timestamp for
\* datetime.fromisoformat, or stays the text it is.
try_parse(value) ==
    IF value = << >> THEN NoneV
    ELSE LET num == IF FirstIndex(value, ".") > 0 THEN ParseFloat(value) ELSE ParseInt(value)
         IN  IF num.ok
             THEN [k |-> IF FirstIndex(value, ".") > 0 THEN "float" ELSE "int", v |-> num.v]
             ELSE IF value \in TimestampTexts THEN [k |-> "time", v |-> value]
             ELSE Str(value)

\* The messages sensors.read_all() collects.
ErrorLists ==
    { << >>,
      << <<"t">> >>,
      << <<"t">>, <<"m">> >> }

\* The columns 'errors' and 'bushels_per_hr' of the header (logger.py 31-32).
ErrorsColumn == 7

BushelsColumn == 9

\* __init__.py 334-343: the errors column is read back as a list and shown as
\* its messages joined by '; ', None for an empty list or an empty field.
errors_pretty(val) ==
    IF val = << >> THEN NoneV
    ELSE IF \E msgs \in ErrorLists : ListRepr(msgs) = val
         THEN LET msgs == CHOOSE m \in ErrorLists : ListRepr(m) = val
              IN  IF msgs = << >> THEN NoneV ELSE Str(Join(msgs, <<";", " ">>))
    ELSE Str(val)

\* sensors.read_all(): temperatures from get_temps (degrees, in millionths)
\* and voltages from get_moisture, each None when its sensor failed.
Temps == {NoneV, Float(0 - 250000), Float(0), Float(27260000)}

OutletTemps == {NoneV, Float(25000000), Float(1372000000)}

\* The inlet voltages: what the ADC gives, and voltages below and above the
\* limits of v_to_pct.
Volts ==
    {NoneV, Float(0 - 1000000), Float(0), Float(125), Float(1000), Float(1650000),
     Float(3300000), Float(4096000), Float(10000000)}

OutletVolts == {NoneV, Float(0 - 125), Float(3300000)}

\* A payload of read_all() (sensors.py 224-232).
Payloads ==
    [inlet_c : Temps, outlet_c : OutletTemps, inlet_v : Volts, outlet_v : OutletVolts,
     simulated : {Bool(FALSE), Bool(TRUE)}, errors : {List(m) : m \in ErrorLists}]

\* payload = {} (line 47): every payload.get() gives None.
EmptyPayload ==
    [inlet_c |-> NoneV, outlet_c |-> NoneV, inlet_v |-> NoneV, outlet_v |-> NoneV,
     simulated |-> NoneV, errors |-> NoneV]

\* lines 44-47: read the sensors.
ReadAll ==
    /\ stage = "idle"
    /\ payload' \in Payloads \cup {EmptyPayload}
    /\ stage' = "read"
    /\ UNCHANGED <<shared, clock, nrows, pc, path, row, op, res, ncalls, signalled, callHist,
                   lastRow, out, line, parsed, AUGER_PCT, hardware>>

\* lines 49-83: build the row and write it.
SampleAndWrite ==
    /\ stage = "read"
    /\ \E ts \in TimestampTexts :
          line' = CsvLine([i \in 1..9 |-> PyStr(RowOf(payload, ts)[i])])
    /\ stage' = "written"
    /\ UNCHANGED <<shared, clock, nrows, pc, path, row, op, res, ncalls, signalled, callHist,
                   lastRow, out, payload, parsed, AUGER_PCT, hardware>>

\* The row is done with; the next tick or sample_once begins with nothing.
NextSample ==
    /\ stage = "parsed"
    /\ payload' = None
    /\ line' = << >>
    /\ parsed' = << >>
    /\ stage' = "idle"
    /\ UNCHANGED <<shared, clock, nrows, pc, path, row, op, res, ncalls, signalled, callHist,
                   lastRow, out, AUGER_PCT, hardware>>

\* auger_control, __init__.py 176-203: a POST adds delta to the percentage
\* and keeps the result within 0..100.  Here it is handled between two
\* samples.
Deltas == {0 - 50, 50}

Max(a, b) == IF a > b THEN a ELSE b

Min(a, b) == IF a < b THEN a ELSE b

auger_control(delta) ==
    /\ stage = "idle"
    /\ LET cur == AUGER_PCT
           new == Max(0, Min(100, cur + delta))
       IN  AUGER_PCT' = new
    /\ UNCHANGED <<shared, clock, nrows, pc, path, row, op, res, ncalls, signalled, callHist,
                   lastRow, out, payload, line, parsed, stage, hardware>>

\* logs_preview, __init__.py 279-346: read the row back, field by field.
PreviewRow ==
    /\ stage = "written"
    /\ parsed' = [i \in 1..Len(CsvFields(line)) |->
                    IF i = ErrorsColumn THEN errors_pretty(CsvFields(line)[i])
                    ELSE try_parse(CsvFields(line)[i])]
    /\ stage' = "parsed"
    /\ UNCHANGED <<shared, clock, nrows, pc, path, row, op, res, ncalls, signalled, callHist,
                   lastRow, out, payload, line, AUGER_PCT, hardware>>

\* ------------------------------------------------- sensors.py, lazy init
\* The handles of lines 79-102 and of lines 105-110.
SpiHandles == {"spi", "cs_inlet", "cs_outlet", "thermo_inlet", "thermo_outlet"}

I2cHandles == {"i2c", "ads", "chan_inlet", "chan_outlet"}

AllHandles == SpiHandles \cup I2cHandles

\* What a reader's step leaves alone outside the sensors module.
logging == <<shared, clock, nrows, pc, path, row, op, res, ncalls, signalled, callHist,
             lastRow, out, pure>>

HGoto(r, v) == hpc' = [hpc EXCEPT ![r] = v]

\* The statement that follows the call of _init_hardware in read_all (line
\* 208), in get_temps (line 141) and in get_moisture (line 172).
AfterInit(v) ==
    CASE v = "read_all" -> "get_temps"
      [] v = "get_temps" -> "gt_sim"
      [] v = "get_moisture" -> "gm_sim"

\* A thread calls read_all(): the logger's task in a tick, or a request.
ReadAllCall(r) ==
    /\ hpc[r] = "idle"
    /\ HGoto(r, "read_all")
    /\ reading' = [reading EXCEPT ![r] = NoReading]
    /\ UNCHANGED <<logging, SIMULATED, HW_LIBS_OK, HW_INIT_DONE, handles, inits, hret>>

\* line 69: if _HW_INIT_DONE: return
InitCheck(r) ==
    /\ hpc[r] \in {"read_all", "get_temps", "get_moisture"}
    /\ IF HW_INIT_DONE
       THEN HGoto(r, AfterInit(hpc[r])) /\ UNCHANGED hret
       ELSE HGoto(r, "init_set") /\ hret' = [hret EXCEPT ![r] = AfterInit(hpc[r])]
    /\ UNCHANGED <<logging, SIMULATED, HW_LIBS_OK, HW_INIT_DONE, handles, inits, reading>>

\* line 71: _HW_INIT_DONE = True, before anything is initialised
InitSet(r) ==
    /\ hpc[r] = "init_set"
    /\ HW_INIT_DONE' = TRUE
    /\ inits' = inits + 1
    /\ HGoto(r, "init_libs")
    /\ UNCHANGED <<logging, SIMULATED, HW_LIBS_OK, handles, hret, reading>>

\* lines 73-75: without the libraries, SIMULATED = True and return
InitLibs(r) ==
    /\ hpc[r] = "init_libs"
    /\ IF HW_LIBS_OK
       THEN HGoto(r, "init_spi") /\ UNCHANGED SIMULATED
       ELSE HGoto(r, hret[r]) /\ SIMULATED' = TRUE
    /\ UNCHANGED <<logging, HW_LIBS_OK, HW_INIT_DONE, handles, inits, hret, reading>>

\* lines 79-102: the SPI bus, the chip selects and the two thermocouples, or
\* an exception of the hardware
InitSpi(r) ==
    /\ hpc[r] = "init_spi"
    /\ \E ok \in BOOLEAN :
          IF ok THEN handles' = handles \cup SpiHandles /\ HGoto(r, "init_i2c")
          ELSE UNCHANGED handles /\ HGoto(r, "init_fail")
    /\ UNCHANGED <<logging, SIMULATED, HW_LIBS_OK, HW_INIT_DONE, inits, hret, reading>>

\* lines 105-110: the I2C bus, the ADC and its two channels, or an exception
InitI2c(r) ==
    /\ hpc[r] = "init_i2c"
    /\ \E ok \in BOOLEAN :
          IF ok THEN handles' = handles \cup I2cHandles /\ HGoto(r, "init_ok")
          ELSE UNCHANGED handles /\ HGoto(r, "init_fail")
    /\ UNCHANGED <<logging, SIMULATED, HW_LIBS_OK, HW_INIT_DONE, inits, hret, reading>>

\* line 113: SIMULATED = False
InitOk(r) ==
    /\ hpc[r] = "init_ok"
    /\ SIMULATED' = FALSE
    /\ HGoto(r, hret[r])
    /\ UNCHANGED <<logging, HW_LIBS_OK, HW_INIT_DONE, handles, inits, hret, reading>>

\* lines 114-117: the handler, SIMULATED = True
InitFail(r) ==
    /\ hpc[r] = "init_fail"
    /\ SIMULATED' = TRUE
    /\ HGoto(r, hret[r])
    /\ UNCHANGED <<logging, HW_LIBS_OK, HW_INIT_DONE, handles, inits, hret, reading>>

\* What a read through the handles hs gives: a value of the hardware, or
\* None when a handle is still None (AttributeError, caught).
Through(hs) == IF hs \subseteq handles THEN "hardware" ELSE "missing"

\* get_temps, lines 146-160
GetTemps(r) ==
    /\ hpc[r] = "gt_sim"
    /\ reading' = [reading EXCEPT ![r].temps =
                  IF SIMULATED THEN "simulated"
                  ELSE Through({"thermo_inlet", "thermo_outlet"})]
    /\ HGoto(r, "get_moisture")
    /\ UNCHANGED <<logging, SIMULATED, HW_LIBS_OK, HW_INIT_DONE, handles, inits, hret>>

\* get_moisture, lines 175-191
GetMoisture(r) ==
    /\ hpc[r] = "gm_sim"
    /\ reading' = [reading EXCEPT ![r].volts =
                  IF SIMULATED THEN "simulated"
                  ELSE Through({"chan_inlet", "chan_outlet"})]
    /\ HGoto(r, "ra_ret")
    /\ UNCHANGED <<logging, SIMULATED, HW_LIBS_OK, HW_INIT_DONE, handles, inits, hret>>

\* read_all, lines 224-232: the payload, with "simulated": bool(SIMULATED)
ReadAllReturn(r) ==
    /\ hpc[r] = "ra_ret"
    /\ reading' = [reading EXCEPT ![r].simulated = IF SIMULATED THEN "True" ELSE "False"]
    /\ HGoto(r, "idle")
    /\ UNCHANGED <<logging, SIMULATED, HW_LIBS_OK, HW_INIT_DONE, handles, inits, hret>>

SensorsNext(r) ==
    \/ ReadAllCall(r)
    \/ InitCheck(r)
    \/ InitSet(r)
    \/ InitLibs(r)
    \/ InitSpi(r)
    \/ InitI2c(r)
    \/ InitOk(r)
    \/ InitFail(r)
    \/ GetTemps(r)
    \/ GetMoisture(r)
    \/ ReadAllReturn(r)

\* ------------------------------------------------------------ specifications
CallerNext(c) ==
    \/ CallStart(c)
    \/ CallStop(c)
    \/ CallSample(c)
    \/ StartChk1(c)
    \/ StartChk2(c)
    \/ StartClear(c)
    \/ StartNew(c)
    \/ StartRun(c)
    \/ StopChk1(c)
    \/ StopChk2(c)
    \/ StopSet(c)
    \/ StopIf(c)
    \/ StopJoin(c)
    \/ StopNone(c)
    \/ SampleCur(c)

LoggerNext(x) ==
    \/ MakeFilename(x)
    \/ HeaderExists(x)
    \/ HeaderOpen(x)
    \/ HeaderWrite(x)
    \/ SetCurrent(x)
    \/ Capture(x)
    \/ Acquire(x)
    \/ AppendRow(x)

\* Two HTTP threads call the logger concurrently.
Next ==
    \/ \E c \in Callers : CallerNext(c)
    \/ \E x \in Threads : LoggerNext(x)
    \/ \E t \in Tasks : TaskNext(t)
    \/ Tick

Spec == Init /\ [][Next]_vars

\* One client calls the logger, one call after the other; the background
\* tasks and the clock run concurrently with it.
SeqThreads == Tasks \cup {Caller1}

NextSeq ==
    \/ CallerNext(Caller1)
    \/ \E x \in SeqThreads : LoggerNext(x)
    \/ \E t \in Tasks : TaskNext(t)
    \/ Tick

SpecSeq == Init /\ [][NextSeq]_vars

\* The client also asks for the list of logs and for the latest row.
NextObs ==
    \/ NextSeq
    \/ QueryNext(Caller1)

SpecObs == Init /\ [][NextObs]_vars

\* The row derivation alone: one reading after the other is made into a row,
\* written and read back.
NextRow ==
    \/ ReadAll
    \/ SampleAndWrite
    \/ PreviewRow
    \/ NextSample
    \/ \E delta \in Deltas : auger_control(delta)

SpecRow == Init /\ [][NextRow]_vars

\* The sensors module alone: the logger's task and a request thread read the
\* sensors, each again and again.
NextHw == \E r \in Readers : SensorsNext(r)

SpecHw == InitHw /\ [][NextHw]_vars

\* The same client and tasks on a file system whose operations can fail.
IOFails(x) ==
    \/ HeaderOpenFails(x)
    \/ HeaderWriteFails(x)
    \/ AppendFails(x)

NextIO ==
    \/ NextSeq
    \/ \E x \in SeqThreads : IOFails(x)

SpecIO == Init /\ [][NextIO]_vars

TypeOK ==
    /\ thread \in Tasks \cup {None}
    /\ stopEv \in BOOLEAN
    /\ lock \in BOOLEAN
    /\ current_file \in Names \cup {None}
    /\ dir \subseteq Names
    /\ clock \in Names
    /\ nrows \in 0..MaxRows
    /\ ncalls \in 0..MaxCalls
    /\ sigd \subseteq Tasks
    /\ asleep \subseteq sigd

\* ------------------------------------------------------- shapes of a file
\* The step is one of thread x.
StepOf(x) == pc'[x] # pc[x]

\* A file made of whole records only: the header or whole data rows.
RECURSIVE WholeRecords(_)
WholeRecords(s) ==
    IF s = << >> THEN TRUE
    ELSE IF IsPrefix(Header, s)
         THEN WholeRecords(SubSeq(s, Len(Header) + 1, Len(s)))
    ELSE IF s[1][1] # 0 /\ IsPrefix(RowBytes(s[1][1]), s)
         THEN WholeRecords(SubSeq(s, 3, Len(s)))
    ELSE FALSE

\* The data rows of a file, whole or not: the chunks that follow the header.
HasRow(s, id) == \E i \in 1..(Len(s) - 1) : s[i] = <<id, 1>> /\ s[i + 1] = <<id, 2>>

DataRows(s) == {id \in 1..MaxRows : HasRow(s, id)}

\* ------------------------------------------------------------------ C1
\* C1: in every interleaving of start() and stop() calls, at most one
\* background task that is alive and was not signalled to stop exists.
Unsignalled == {t \in Tasks : Alive(t) /\ t \notin sigd}

C1_OneLiveTask == Cardinality(Unsignalled) <= 1

\* ------------------------------------------------------------------ C2
\* C2: of two start() calls in succession, the first (on a stopped logger)
\* spawns one task, which creates one log file, and the second is a no-op:
\* it returns after the is_running() check and leaves the task, the stop
\* signal, the active file and the log files as they are.
SecondStartIsNoOp(c) ==
    (prev[c] = "start" /\ op[c] = "start" /\ pc[c] # "done" /\ StepOf(c))
        => /\ pc'[c] \in {"st_chk2", "done"}
           /\ res'[c] # "exc"
           /\ UNCHANGED shared
           /\ \A t \in Tasks : pc'[t] = pc[t]

FirstStartSpawnsOne(c) ==
    (op[c] = "start" /\ ~wasRunning[c] /\ pc[c] # "done" /\ pc'[c] = "done")
        => /\ res'[c] = "ret"
           /\ thread' # None
           /\ pc[thread'] = "new"
           /\ pc'[thread'] = "name"
           /\ Cardinality({t \in Tasks : pc'[t] # "none"})
                = Cardinality({t \in Tasks : pc[t] # "none"})

TaskCreatesItsFile(t) ==
    (pc[t] = "hdr_exists" /\ StepOf(t)) => pc'[t] = "hdr_open"

\* No call is in progress: the client is between two calls.
BetweenCalls == \A c \in Callers : pc[c] \in {"idle", "done"}

C2_StartTwice ==
    [][/\ \A c \in Callers : SecondStartIsNoOp(c) /\ FirstStartSpawnsOne(c)
       /\ \A t \in Tasks : BetweenCalls => TaskCreatesItsFile(t)]_vars

\* ------------------------------------------------------------------ C3
\* C3: when start() returns from a call made on a logger that was not
\* running, the session file exists with its header and one data row,
\* current_file() names it, and is_running() is true.
StartedSession ==
    /\ IsRunning
    /\ current_file # None
    /\ current_file = path[thread]
    /\ current_file \in dir
    /\ IsPrefix(Header, files[current_file])
    /\ Len(files[current_file]) >= Len(Header) + 2
    /\ WholeRecords(files[current_file])

C3_StartIsSynchronous ==
    [][\A c \in Callers :
         (op[c] = "start" /\ ~wasRunning[c] /\ pc[c] # "done" /\ pc'[c] = "done")
            => StartedSession']_vars

\* ------------------------------------------------------------------ C4
\* C4: stop() never writes the active file reference; when stop() returns
\* from a call made on a running logger, is_running() is false and
\* current_file() is what it was before the call; a sample_once() called next
\* writes to that file.
InCall(c, o) == op[c] = o /\ pc[c] \notin {"idle", "done"}

StopKeepsFile(c) ==
    (InCall(c, "stop") /\ StepOf(c))
        => current_file' = current_file /\ dir' = dir /\ files' = files

StopReturnsStopped(c) ==
    (InCall(c, "stop") /\ wasRunning[c] /\ pc'[c] = "done")
        => res'[c] = "ret" /\ ~IsRunning' /\ current_file' = fileAtCall[c]

SampleAfterStop(c) ==
    (InCall(c, "sample_once") /\ prev[c] = "stop" /\ fileAtCall[c] # None
        /\ pc[c] = "so_cur" /\ StepOf(c))
        => pc'[c] = "capture" /\ path'[c] = fileAtCall[c]

C4_StopKeepsActiveFile ==
    [][\A c \in Callers :
         StopKeepsFile(c) /\ StopReturnsStopped(c) /\ SampleAfterStop(c)]_vars

\* ------------------------------------------------------------------ C5
\* C5: a stop() called when the logger is not running returns at its first
\* step, without raising, and leaves the task reference, the stop signal, the
\* active file, the log files and every task as they are.
C5_StopWhenStopped ==
    [][\A c \in Callers :
         (InCall(c, "stop") /\ ~wasRunning[c] /\ StepOf(c))
            => /\ pc'[c] = "done"
               /\ res'[c] = "ret"
               /\ UNCHANGED <<shared, sigd>>
               /\ \A t \in Tasks : pc'[t] = pc[t]]_vars

\* A second stop() in a row has returned; a session was stopped before it and
\* left its file as the active one.
C5_Witness ==
    \E c \in Callers :
        /\ op[c] = "stop" /\ prev[c] = "stop" /\ ~wasRunning[c]
        /\ pc[c] = "done" /\ res[c] = "ret"
        /\ sigd # {} /\ stopEv /\ current_file # None

\* ------------------------------------------------------------------ C6
\* C6: stop() always returns: it never ends by raising, no step of it waits
\* for a lock or for another thread, and the lock a task waits for is never
\* held by a caller that is inside stop().
StopStep(c) ==
    StopChk1(c) \/ StopChk2(c) \/ StopSet(c) \/ StopIf(c) \/ StopJoin(c) \/ StopNone(c)

LockHolders == {x \in Threads : pc[x] = "append"}

C6_StopAlwaysReturns ==
    \A c \in Callers :
        /\ (op[c] = "stop" /\ pc[c] = "done") => res[c] = "ret"
        /\ InCall(c, "stop") => (ENABLED StopStep(c)) /\ c \notin LockHolders

\* ------------------------------------------------------------------ C7
\* C7: a task that stop() has signalled exits at its next check of the stop
\* signal, also when that stop() timed out and start() was called afterwards.
C7_SignalledTaskExits ==
    [][\A t \in Tasks :
         (t \in sigd /\ pc[t] = "wait" /\ StepOf(t)) => pc'[t] = "dead"]_vars

\* ------------------------------------------------------------------ C8
\* C8: at most one thread is inside the open/append/close sequence, and every
\* file holds whole records only.
C8_WholeRows ==
    /\ Cardinality(LockHolders) <= 1
    /\ \A f \in dir : WholeRecords(files[f])

\* ------------------------------------------------------------------ C9
\* C9: every log file that holds anything starts with the header and holds it
\* once, and the header is only written to a file that did not exist.
HeaderOnceFirst(s) ==
    /\ IsPrefix(Header, s)
    /\ \A i \in 1..Len(s) : s[i][1] = 0 => i <= Len(Header)

HeaderOnlyForNewFile(x) ==
    (pc[x] = "hdr_open" /\ StepOf(x)) => path[x] \notin dir

C9_HeaderOnce ==
    /\ [](\A f \in dir : files[f] # << >> => HeaderOnceFirst(files[f]))
    /\ [][\A x \in Threads : HeaderOnlyForNewFile(x)]_vars

\* ------------------------------------------------------------------ C10
\* C10: a sample_once() that returns a name has appended one row to the file
\* of that name and to no other: the active file if there is one (no file is
\* created), else a file that starts with its header and is the active file.
SampleUsesActiveFile(c) ==
    (InCall(c, "sample_once") /\ pc[c] = "so_cur" /\ StepOf(c) /\ current_file # None)
        => pc'[c] = "capture" /\ path'[c] = current_file /\ dir' = dir

SampleReturns(c) ==
    (InCall(c, "sample_once") /\ pc'[c] = "done")
        => /\ res'[c] = "ret"
           /\ row[c] \notin DataRows(files[path[c]])
           /\ DataRows(files'[path[c]]) = DataRows(files[path[c]]) \cup {row[c]}
           /\ \A f \in Names \ {path[c]} : files'[f] = files[f]
           /\ HeaderOnceFirst(files'[path[c]])
           /\ fileAtCall[c] = None => current_file' = path[c]

C10_SampleOnce ==
    [][\A c \in Callers : SampleUsesActiveFile(c) /\ SampleReturns(c)]_vars

\* ------------------------------------------------------------------ C11
\* C11: sample_once() never ends by raising; it returns a file name exactly
\* when its row was appended to that file, and it returns None when creating
\* the file, writing the header or appending the row failed.
RowAppended(c) ==
    /\ path[c] \in dir'
    /\ files'[path[c]] = files[path[c]] \o RowBytes(row[c])

C11_SampleNeverRaises ==
    [][\A c \in Callers :
         (InCall(c, "sample_once") /\ pc'[c] = "done")
            => /\ res'[c] \in {"ret", "fail"}
               /\ res'[c] = "ret" <=> RowAppended(c)
               /\ res'[c] = "fail" <=> files' = files]_vars

\* sample_once() has returned None after the append failed: the file holds
\* its header and no row.
C11_Witness ==
    \E c \in Callers :
        /\ op[c] = "sample_once" /\ pc[c] = "done" /\ res[c] = "fail"
        /\ path[c] \in dir /\ files[path[c]] = Header /\ row[c] # 0

\* ------------------------------------------------------------------ C12
\* C12: a start() whose session file could not be created, or whose header
\* could not be written, does not report success: no start() that returned
\* normally has a task that ended on that failure.
C12_StartSurfacesFailure ==
    \A c \in Callers :
        (op[c] = "start" /\ pc[c] = "done" /\ res[c] = "ret" /\ ~wasRunning[c]
            /\ thread # None)
            => pc[thread] # "crashed"

\* ------------------------------------------------------------------ C13
\* C13: no failure ends a task that start() has spawned: a task stops being
\* alive only by leaving its wait on a stop signal that is set.
C13_TaskSurvives ==
    [][\A t \in Tasks :
         (Alive(t) /\ ~Alive(t)')
            => /\ pc'[t] = "dead"
               /\ (pc[t] = "wait" /\ stopEv) \/ (pc[t] = "woken" /\ t \in asleep)]_vars

\* ------------------------------------------------------------------ C14
\* C14: when the stop() of the sequence start() on a stopped logger,
\* sample_once(), stop() returns and the task has ended, list_logs() is not
\* empty, its first name is the file of that session, and the file holds the
\* header followed by at least two data rows.
LastTask == CHOOSE t \in Tasks : pc[t] # "none" /\ \A u \in Tasks : pc[u] # "none" => u <= t

StartSampleStop(c) ==
    /\ Len(past[c]) >= 3
    /\ past[c][Len(past[c]) - 2] = <<"start", FALSE>>
    /\ past[c][Len(past[c]) - 1][1] = "sample_once"
    /\ InCall(c, "stop") /\ prev[c] = "sample_once"

SessionLogged ==
    /\ ListLogs # << >>
    /\ path[LastTask] # None
    /\ ListLogs[1] = path[LastTask]
    /\ IsPrefix(Header, files[ListLogs[1]])
    /\ Cardinality(DataRows(files[ListLogs[1]])) >= 2

C14_StartSampleStop ==
    [][\A c \in Callers :
         (StartSampleStop(c) /\ pc'[c] = "done" /\ pc'[LastTask] = "dead")
            => SessionLogged']_vars

\* ------------------------------------------------------------------ C15
\* C15: get_latest_row() returns None when there is no log file or the newest
\* file has no data row, and otherwise the text of the row that was appended
\* last; stated for a logger at rest (every task is between two ticks) on
\* which start() and sample_once() were called and stop() was not.
AtRest == \A t \in Tasks : pc[t] \in {"none", "wait", "sleep", "dead"}

NeverStopped(c) == \A i \in 1..Len(past[c]) : past[c][i][1] # "stop"

LatestAnswer ==
    IF dir = {} \/ DataRows(files[ListLogs[1]]) = {} THEN None
    ELSE IF lastRow = 0 THEN None
    ELSE RowBytes(lastRow)

C15_LatestRow ==
    [][\A c \in Callers :
         (InCall(c, "get_latest_row") /\ pc'[c] = "done" /\ AtRest /\ NeverStopped(c)
            /\ (pc[c] = "gl_read" => path[c] = ListLogs[1]))
            => res'[c] = "ret" /\ out'[c] = LatestAnswer]_vars

\* ------------------------------------------------------------------ C16
\* C16: list_logs() returns every name of the directory once, greatest name
\* first, and once the task of the session started last has written its
\* file, the first name is that file.
Descending(q) == \A i \in 1..(Len(q) - 1) : q[i] > q[i + 1]

ExactlyTheFiles(q) == {q[i] : i \in 1..Len(q)} = dir /\ Len(q) = Cardinality(dir)

SessionFileFirst(q) ==
    (AtRest /\ (\E t \in Tasks : pc[t] # "none") /\ path[LastTask] \in dir)
        => q[1] = path[LastTask]

C16_ListLogs ==
    [][\A c \in Callers :
         (InCall(c, "list_logs") /\ pc'[c] = "done")
            => /\ res'[c] = "ret"
               /\ ExactlyTheFiles(out'[c])
               /\ Descending(out'[c])
               /\ SessionFileFirst(out'[c])]_vars

\* ------------------------------------------------------------------ C17
\* C17: the row written for a payload whose errors list is empty has an
\* empty errors field.
Written == stage \in {"written", "parsed"}

C17_EmptyErrorsField ==
    (Written /\ payload.errors.k = "list" /\ payload.errors.v = << >>)
        => CsvFields(line)[ErrorsColumn] = << >>

\* ------------------------------------------------------------------ C18
\* C18: for a payload whose inlet_v is None, the moisture and both bushels
\* estimates are None ('' in the logger) and the bushels_per_hr field of the
\* written row is empty, whatever the other values are.
C18_NullInletVoltage ==
    (Written /\ payload.inlet_v.k = "none")
        => /\ v_to_pct(payload.inlet_v).k = "none"
           /\ ui_bushels(payload).k = "none"
           /\ bushels(payload) = Str(<< >>)
           /\ Len(CsvFields(line)) = BushelsColumn
           /\ CsvFields(line)[BushelsColumn] = << >>

\* A row was written for a reading without inlet voltage whose other three
\* values are there.
C18_Witness ==
    /\ Written
    /\ payload.inlet_v.k = "none"
    /\ payload.inlet_c.k = "float" /\ payload.outlet_c.k = "float"
    /\ payload.outlet_v.k = "float"
    /\ CsvFields(line)[BushelsColumn] = << >>

\* ------------------------------------------------------------------ C19
\* C19: a row that was written and read back has None exactly where the
\* payload's inlet_c, outlet_c, inlet_v and outlet_v are None, and the
\* payload's number in each of the other positions.
NumericFields(p) == <<p.inlet_c, p.outlet_c, p.inlet_v, p.outlet_v>>

ReadsBack(orig, got) ==
    IF orig.k = "none" THEN got.k = "none"
    ELSE got.k \in {"float", "int"} /\ got.v = orig.v

NoStartStopInProgress ==
    \A c \in Callers : ~InCall(c, "start") /\ ~InCall(c, "stop")

C20_RunningNotLost ==
    (NoStartStopInProgress /\ ~stopEv /\ \E t \in Tasks : Alive(t)) => IsRunning

\* ------------------------------------------------------------------ C25
\* C25: a task that was blocked in the wait between two ticks when stop() set
\* the stop signal is woken by it, and the only step it takes from then on is
\* the one that ends it: it does not wait out the interval and it appends no
\* further row.
C25_InterruptibleWait ==
    /\ [](\A t \in asleep : pc[t] \in {"woken", "dead"})
    /\ [][\A t \in asleep :
            StepOf(t) => pc'[t] = "dead" /\ files' = files /\ nrows' = nrows]_vars

C25_Witness ==
    \E t \in asleep : pc[t] = "dead" /\ DataRows(files[path[t]]) # {}

\* ------------------------------------------------------------------ C21
\* C21: while the running task has written a row, is between two ticks and
\* was not signalled to stop, current_file names the file that task appends
\* to, and a sample_once() that found that file current appends to it.
BetweenTicks(t) == thread = t /\ t \notin sigd /\ pc[t] \in {"wait", "sleep"}

C21_SingleActiveFile ==
    \A t \in Tasks :
        BetweenTicks(t) =>
            /\ current_file = path[t]
            /\ \A c \in Callers :
                   (InCall(c, "sample_once") /\ pc[c] = "append"
                        /\ fileAtCall[c] = path[t])
                      => path[c] = path[t]

\* ------------------------------------------------------------------ C22
\* C22: log files are append-only: no step removes a log file, and every
\* chunk of a data row that a file holds stays where it is in that file.
RowsStay(f) ==
    \A i \in 1..Len(files[f]) :
        files[f][i][1] # 0 => Len(files'[f]) >= i /\ files'[f][i] = files[f][i]

C22_AppendOnly ==
    [][dir \subseteq dir' /\ \A f \in Names : RowsStay(f)]_vars

\* ------------------------------------------------------------------ C23
\* C23: the data rows of a file are in capture order: a row that comes
\* earlier in a file was captured earlier (rows are numbered as captured).
FirstChunk(s, i) == s[i][1] # 0 /\ s[i][2] = 1

InCaptureOrder(s) ==
    \A i, j \in 1..Len(s) :
        (i < j /\ FirstChunk(s, i) /\ FirstChunk(s, j)) => s[i][1] < s[j][1]

C23_CaptureOrder == \A f \in dir : InCaptureOrder(files[f])

\* ------------------------------------------------------------------ C24
\* C24: two sessions never share a file: once a session has ended, the task
\* of a later start() makes a file name that differs from that session's.
SessionFile(t) == path[t]

C24_SessionFilesDiffer ==
    \A t, u \in Tasks :
        (NoStartStopInProgress /\ t # u /\ pc[t] = "dead"
             /\ SessionFile(t) # None /\ SessionFile(u) # None)
            => SessionFile(t) # SessionFile(u)

\* ------------------------------------------------------------------ C26
\* C26: the auger_pct field of every written row is the text of the auger
\* percentage that the auger control holds.
AugerColumn == 8

C26_AugerColumn ==
    Written => CsvFields(line)[AugerColumn] = Digits(AUGER_PCT)

\* ------------------------------------------------------------------ C27
\* C27: when the sensor read fails as a whole, the row is still written: one
\* line of nine fields, with a timestamp, with inlet_c, outlet_c, inlet_v,
\* outlet_v and bushels_per_hr empty, and with no field reading None.
OneLine(t) == {i \in 1..Len(t) : t[i] = "\n"} = {Len(t)}

C27_FailedRead ==
    /\ (stage = "read" /\ payload = EmptyPayload) => ENABLED SampleAndWrite
    /\ (Written /\ payload = EmptyPayload)
          => /\ OneLine(line)
             /\ Len(CsvFields(line)) = BushelsColumn
             /\ CsvFields(line)[1] \in TimestampTexts
             /\ \A i \in {2, 3, 4, 5, BushelsColumn} : CsvFields(line)[i] = << >>
             /\ \A i \in 1..BushelsColumn : CsvFields(line)[i] # <<"N", "o", "n", "e">>

C27_Witness ==
    /\ stage = "parsed"
    /\ payload = EmptyPayload
    /\ Len(CsvFields(line)) = BushelsColumn
    /\ parsed[2].k = "none" /\ parsed[BushelsColumn].k = "none"

\* ------------------------------------------------------------------ C28
\* C28: for every inlet voltage, the moisture percentage lies in 0..100 and
\* so does the bushels estimate, in the logger and in the UI data.
InRange(x) == x.k = "float" /\ 0 <= x.v /\ x.v <= 100 * Unit

C28_MoistureInRange ==
    (stage # "idle" /\ payload.inlet_v.k = "float")
        => /\ InRange(v_to_pct(payload.inlet_v))
           /\ InRange(bushels(payload))
           /\ InRange(ui_bushels(payload))
           /\ (payload.outlet_v.k = "float" => InRange(v_to_pct(payload.outlet_v)))

\* Rows were written for voltages below, at and above the limits.
C28_Witness ==
    /\ Written
    /\ payload.inlet_v = Float(10000000)
    /\ payload.outlet_v = Float(0 - 125)
    /\ v_to_pct(payload.inlet_v) = Float(100 * Unit)
    /\ v_to_pct(payload.outlet_v) = Float(0)
    /\ bushels(payload) = Float(0)

\* ------------------------------------------------------------------ C29
\* C29: a read that reports simulated = false has read its temperatures and
\* its voltages through hardware handles that were set up.
C29_NotSimulatedMeansReady ==
    \A r \in Readers :
        (hpc[r] = "idle" /\ reading[r].simulated = "False")
            => reading[r].temps = "hardware" /\ reading[r].volts = "hardware"

====
